---------------------------- MODULE Spec2Model ----------------------------
(***************************************************************************)
(* Model of the client-appointments screen (ClientAppointmentsScreen) and  *)
(* its data-access object clientAppointmentsApi: the fetch of the user's   *)
(* appointments, the classifier views derived from the fetched list, the   *)
(* 48-hour eligibility rule, the cancel operation with its post-commit     *)
(* notifications, and the contact of the manager over WhatsApp.            *)
(*                                                                         *)
(* Conventions.                                                            *)
(*  - A text value is a sequence of one-character strings, so that trim,   *)
(*    toLowerCase, split and padStart are computed on the characters.      *)
(*    NoString (the empty sequence) stands for null, undefined and "":     *)
(*    every path of the source tests these values by truthiness only.      *)
(*  - A calendar date is a day number; an instant is a number of seconds   *)
(*    of local wall-clock time (day * 86400 + seconds of the day).  NaN    *)
(*    stands for the time value of an Invalid Date.                        *)
(***************************************************************************)
EXTENDS Integers, Sequences, FiniteSets, TLC

(***************************************************************************)
(* Bounds of the model.                                                    *)
(***************************************************************************)
\* the operations a run starts after the mount: refreshes, changes of the
\* identity, changes by other sessions, confirmed cancels and presses of the
\* message button
MaxOperations == 2

\* the copies of one record in a list given to the classifier
MaxCopies == 2

(***************************************************************************)
(* Units and program constants.                                            *)
(***************************************************************************)
SecondsPerHour == 3600
SecondsPerDay == 86400
LateCancelHours == 48
DaysBack == 7
DaysAhead == 14

NoString == <<>>
NoDate == -1
BadDate == -2
NaN == -1

(***************************************************************************)
(* Text helpers: String.prototype.trim, toLowerCase, split, padStart and   *)
(* the case-insensitive substring match of the ilike operator.             *)
(***************************************************************************)
Truthy(s) == s # NoString

LowerChar(c) ==
  CASE c = "D" -> "d"
    [] c = "R" -> "r"
    [] OTHER -> c

toLowerCase(s) == [i \in 1..Len(s) |-> LowerChar(s[i])]

RECURSIVE TrimStart(_)
TrimStart(s) ==
  IF s # <<>> /\ Head(s) = " " THEN TrimStart(Tail(s)) ELSE s

RECURSIVE TrimEnd(_)
TrimEnd(s) ==
  IF s # <<>> /\ s[Len(s)] = " " THEN TrimEnd(SubSeq(s, 1, Len(s) - 1)) ELSE s

trim(s) == TrimEnd(TrimStart(s))

\* s contains p as a contiguous substring
Contains(s, p) ==
  \E i \in 1..(Len(s) - Len(p) + 1) : SubSeq(s, i, i + Len(p) - 1) = p

\* column ILIKE '%pattern%'; a null column never matches
ilike(column, pattern) ==
  /\ column # NoString
  /\ Contains(toLowerCase(column), toLowerCase(pattern))

\* s.split(sep): the pieces between the separators; "" splits into [""]
RECURSIVE split(_, _)
split(s, sep) ==
  IF \A i \in 1..Len(s) : s[i] # sep
  THEN <<s>>
  ELSE LET k == CHOOSE i \in 1..Len(s) :
                  s[i] = sep /\ \A j \in 1..(i - 1) : s[j] # sep
       IN  <<SubSeq(s, 1, k - 1)>> \o split(SubSeq(s, k + 1, Len(s)), sep)

\* s.padStart(2, '0')
padStart2(s) ==
  CASE Len(s) = 0 -> <<"0", "0">>
    [] Len(s) = 1 -> <<"0">> \o s
    [] OTHER -> s

Digits == {"0", "1", "2", "3", "4", "5", "6", "7", "8", "9"}

DigitValue(c) ==
  CASE c = "0" -> 0 [] c = "1" -> 1 [] c = "2" -> 2 [] c = "3" -> 3
    [] c = "4" -> 4 [] c = "5" -> 5 [] c = "6" -> 6 [] c = "7" -> 7
    [] c = "8" -> 8 [] c = "9" -> 9

\* a two-digit field of an ISO date-time, or NaN
TwoDigits(s) ==
  IF Len(s) = 2 /\ s[1] \in Digits /\ s[2] \in Digits
  THEN 10 * DigitValue(s[1]) + DigitValue(s[2])
  ELSE NaN

(***************************************************************************)
(* Date helpers.                                                           *)
(***************************************************************************)
\* floor division, also for negative instants
FloorDiv(a, b) == IF a >= 0 THEN a \div b ELSE -((-a + b - 1) \div b)

\* new Date(`${date}T${hhmm}`).getTime(): a date-time without offset is
\* local time; the time part must read HH:MM (seconds optional) with
\* HH <= 23 and MM <= 59, anything else gives an Invalid Date
DateTimeLocal(date, hhmm) ==
  LET parts == split(hhmm, ":")
      hh == TwoDigits(parts[1])
      mm == IF Len(parts) >= 2 THEN TwoDigits(parts[2]) ELSE NaN
      ss == IF Len(parts) >= 3 THEN TwoDigits(parts[3]) ELSE 0
  IN  IF \/ date \in {NoDate, BadDate}
         \/ Len(parts) \notin {2, 3}
         \/ hh = NaN \/ hh > 23
         \/ mm = NaN \/ mm > 59
         \/ ss = NaN \/ ss > 59
      THEN NaN
      ELSE date * SecondsPerDay + hh * SecondsPerHour + mm * 60 + ss

\* d = new Date(slot_date); d.setHours(0, 0, 0, 0); d.getTime()
\* A date-only text is read as midnight UTC, and setHours moves it to the
\* local midnight of the local day that instant falls on.  new Date(null)
\* is the epoch; a text that is no date gives an Invalid Date.
DateOnlyLocalMidnight(date, tz) ==
  CASE date = BadDate -> NaN
    [] date = NoDate -> FloorDiv(tz * SecondsPerHour, SecondsPerDay) * SecondsPerDay
    [] OTHER -> FloorDiv(date * SecondsPerDay + tz * SecondsPerHour, SecondsPerDay)
                  * SecondsPerDay

\* d = new Date(); d.setHours(0, 0, 0, 0)
LocalMidnight(nowLocal) == FloorDiv(nowLocal, SecondsPerDay) * SecondsPerDay

\* date.toISOString().split('T')[0] of the local instant: the UTC day
UtcDay(nowLocal, tz) == FloorDiv(nowLocal - tz * SecondsPerHour, SecondsPerDay)

(***************************************************************************)
(* Values of the model: texts, appointment rows and identities.            *)
(***************************************************************************)
NameDa == <<"D", "a">>
NameDaSpaced == <<" ", "d", "a">>
NameDan == <<"D", "a", "n">>
NameRo == <<"R", "o">>
Phone51 == <<"5", "1">>
Phone52 == <<"5", "2">>
Phone59 == <<"5", "9">>
ServiceGel == <<"g", "e", "l">>
Time1000 == <<"1", "0", ":", "0", "0">>
Time930 == <<"9", ":", "3", "0">>
Time1430 == <<"1", "4", ":", "3", "0">>

Day0 == 10

Slot(id, date, time, name, phone, service, available) ==
  [id |-> id, slot_date |-> date, slot_time |-> time, client_name |-> name,
   client_phone |-> phone, service_name |-> service, is_available |-> available]

NoAppointment == Slot(0, NoDate, NoString, NoString, NoString, NoString, TRUE)

\* the rows of the appointments table when the screen is constructed
InitialRows ==
  << Slot(1, Day0 + 2, Time1000, NameDa, Phone51, ServiceGel, FALSE),
     Slot(2, Day0, Time930, NameDaSpaced, NoString, ServiceGel, FALSE),
     Slot(3, Day0 + 3, Time1430, NameDan, Phone59, ServiceGel, FALSE),
     Slot(4, Day0 + 3, Time1430, NameDa, Phone51, NoString, TRUE),
     Slot(5, Day0 - 2, NoString, NameRo, Phone51, ServiceGel, FALSE),
     Slot(6, NoDate, Time1000, NameDa, Phone51, ServiceGel, FALSE),
     Slot(7, Day0, Time1000, NameDa, Phone51, ServiceGel, FALSE) >>

Rows == 1..Len(InitialRows)

\* the rows that other sessions of the data store change
ContendedRows == {1}

UserDa == [name |-> NameDa, phone |-> Phone51]
UserRo == [name |-> NameRo, phone |-> Phone52]
UserNone == [name |-> NoString, phone |-> NoString]
Identities == {UserDa, UserRo, UserNone}

\* the instants the clock takes (local wall-clock seconds): 10:00 on day
\* Day0, and 01:00 on the next day
NowValues ==
  { Day0 * SecondsPerDay + 10 * SecondsPerHour,
    (Day0 + 1) * SecondsPerDay + SecondsPerHour }

FirstNow == CHOOSE t \in NowValues : \A t2 \in NowValues : t <= t2

\* offsets of local time from UTC, in hours
TzOffsets == {-5, 2}

(***************************************************************************)
(* isWithin48Hours(appointment), with Date.now() as a parameter.           *)
(***************************************************************************)
\* isWithin48Hours with the comparison of line 170 written hours <= 48
isWithin48Hours_Inclusive(appointment, nowLocal) ==
  IF appointment.slot_date = NoDate
  THEN FALSE
  ELSE LET time == IF Truthy(appointment.slot_time)
                   THEN appointment.slot_time
                   ELSE <<"0", "0", ":", "0", "0">>
           parts == split(time, ":")
           hh == parts[1]
           mm == IF Len(parts) >= 2 THEN parts[2] ELSE <<"0", "0">>
           dateTime == DateTimeLocal(appointment.slot_date,
                                     padStart2(hh) \o <<":">> \o padStart2(mm))
       IN  IF dateTime = NaN
           THEN FALSE
           ELSE dateTime - nowLocal <= LateCancelHours * SecondsPerHour

isWithin48Hours(appointment, nowLocal) ==
  IF appointment.slot_date = NoDate
  THEN FALSE
  ELSE LET time == IF Truthy(appointment.slot_time)
                   THEN appointment.slot_time
                   ELSE <<"0", "0", ":", "0", "0">>
           parts == split(time, ":")
           hh == parts[1]
           mm == IF Len(parts) >= 2 THEN parts[2] ELSE <<"0", "0">>
           dateTime == DateTimeLocal(appointment.slot_date,
                                     padStart2(hh) \o <<":">> \o padStart2(mm))
       IN  IF dateTime = NaN
           THEN FALSE
           ELSE dateTime - nowLocal < LateCancelHours * SecondsPerHour

(***************************************************************************)
(* clientAppointmentsApi.getUserAppointmentsForMultipleDates               *)
(***************************************************************************)
CharRank(c) ==
  CASE c = " " -> 32
    [] c \in Digits -> 48 + DigitValue(c)
    [] c = ":" -> 58
    [] c = "D" -> 68
    [] c = "R" -> 82
    [] OTHER -> 100

\* s sorts strictly before t as text
RECURSIVE TextLess(_, _)
TextLess(s, t) ==
  IF t = <<>> THEN FALSE
  ELSE IF s = <<>> THEN TRUE
  ELSE IF Head(s) # Head(t) THEN CharRank(Head(s)) < CharRank(Head(t))
  ELSE TextLess(Tail(s), Tail(t))

\* .order('slot_date').order('slot_time'): ascending, nulls last, and the
\* table's row order between rows that compare equal
RowBefore(table, i, j) ==
  LET a == table[i]
      b == table[j]
  IN  IF a.slot_date # b.slot_date THEN a.slot_date < b.slot_date
      ELSE IF a.slot_time # b.slot_time
           THEN IF a.slot_time = NoString THEN FALSE
                ELSE IF b.slot_time = NoString THEN TRUE
                ELSE TextLess(a.slot_time, b.slot_time)
           ELSE i < j

RECURSIVE OrderRows(_, _)
OrderRows(table, S) ==
  IF S = {} THEN <<>>
  ELSE LET first == CHOOSE i \in S : \A j \in S \ {i} : RowBefore(table, i, j)
       IN  <<table[first]>> \o OrderRows(table, S \ {first})

\* ServerQuery without the filter of line 25 on is_available
ServerQuery_AnyAvailability(table, dates, userName, userPhone) ==
  LET userFilter(row) ==
        IF Truthy(userName) \/ Truthy(userPhone)
        THEN \/ Truthy(userName) /\ ilike(row.client_name, trim(userName))
             \/ Truthy(userPhone) /\ row.client_phone # NoString
                                  /\ row.client_phone = trim(userPhone)
        ELSE TRUE
      selected == {i \in DOMAIN table :
                     /\ table[i].slot_date \in dates
                     /\ userFilter(table[i])}
  IN  OrderRows(table, selected)

\* the query of lines 21-44 evaluated by the data store on a table
ServerQuery(table, dates, userName, userPhone) ==
  LET userFilter(row) ==
        IF Truthy(userName) \/ Truthy(userPhone)
        THEN \/ Truthy(userName) /\ ilike(row.client_name, trim(userName))
             \/ Truthy(userPhone) /\ row.client_phone # NoString
                                  /\ row.client_phone = trim(userPhone)
        ELSE TRUE
      selected == {i \in DOMAIN table :
                     /\ table[i].slot_date \in dates
                     /\ table[i].is_available = FALSE
                     /\ userFilter(table[i])}
  IN  OrderRows(table, selected)

\* the exact-match filter of lines 51-62 on the rows the query returned
ClientSideFilter(data, userName, userPhone) ==
  LET keep(slot) ==
        LET nameMatch == /\ Truthy(userName) /\ Truthy(slot.client_name)
                         /\ toLowerCase(trim(slot.client_name))
                              = toLowerCase(trim(userName))
            phoneMatch == /\ Truthy(userPhone) /\ Truthy(slot.client_phone)
                          /\ trim(slot.client_phone) = trim(userPhone)
        IN  nameMatch \/ phoneMatch
  IN  IF Truthy(userName) \/ Truthy(userPhone)
      THEN SelectSeq(data, keep)
      ELSE data

getUserAppointmentsForMultipleDates(table, dates, userName, userPhone) ==
  ClientSideFilter(ServerQuery(table, dates, userName, userPhone),
                   userName, userPhone)

\* the dates of lines 210-219: the UTC day of now - 7 days .. now + 14 days
LoadDates(nowLocal, tz) ==
  {UtcDay(nowLocal + i * SecondsPerDay, tz) : i \in (-DaysBack)..DaysAhead}

(***************************************************************************)
(* The classifier views of lines 272-330, as functions of the local list,  *)
(* the identity, the memoized today and the time zone.                     *)
(***************************************************************************)
\* verifiedUserAppointments without the ownership filter of lines 285-292
verifiedUserAppointments_Unfiltered(list, u) ==
  IF ~Truthy(u.name) /\ ~Truthy(u.phone) THEN <<>> ELSE list

verifiedUserAppointments(list, u) ==
  IF ~Truthy(u.name) /\ ~Truthy(u.phone)
  THEN <<>>
  ELSE LET keep(slot) ==
             LET nameMatch == /\ Truthy(slot.client_name) /\ Truthy(u.name)
                              /\ toLowerCase(trim(slot.client_name))
                                   = toLowerCase(trim(u.name))
                 phoneMatch == /\ Truthy(slot.client_phone) /\ Truthy(u.phone)
                               /\ trim(slot.client_phone) = trim(u.phone)
             IN  nameMatch \/ phoneMatch
       IN  SelectSeq(list, keep)

\* upcomingAppointments with the comparison of line 301 written > today
upcomingAppointments_StrictlyAfter(verified, todayMidnight, tz) ==
  LET keep(slot) ==
        LET appointmentDate == DateOnlyLocalMidnight(slot.slot_date, tz)
        IN  appointmentDate # NaN /\ appointmentDate > todayMidnight
  IN  SelectSeq(verified, keep)

upcomingAppointments(verified, todayMidnight, tz) ==
  LET keep(slot) ==
        LET appointmentDate == DateOnlyLocalMidnight(slot.slot_date, tz)
        IN  appointmentDate # NaN /\ appointmentDate >= todayMidnight
  IN  SelectSeq(verified, keep)

pastAppointments(verified, todayMidnight, tz) ==
  LET keep(slot) ==
        LET appointmentDate == DateOnlyLocalMidnight(slot.slot_date, tz)
        IN  appointmentDate # NaN /\ appointmentDate < todayMidnight
  IN  SelectSeq(verified, keep)

\* the sort key of line 318: the time is used as stored, without padding
NextKey(a) ==
  DateTimeLocal(a.slot_date,
                IF Truthy(a.slot_time) THEN a.slot_time
                ELSE <<"0", "0", ":", "0", "0">>)

\* The records nextAppointment can be: none for an empty list; the first
\* record with the least key when every key is a valid time (the sort is
\* stable); any record when a key is NaN, because the comparator is then
\* inconsistent and the resulting order is implementation-defined.
nextAppointment(upcoming) ==
  IF upcoming = <<>> THEN {NoAppointment}
  ELSE IF \A i \in 1..Len(upcoming) : NextKey(upcoming[i]) # NaN
  THEN LET first == CHOOSE i \in 1..Len(upcoming) :
                      /\ \A j \in 1..Len(upcoming) :
                           NextKey(upcoming[i]) <= NextKey(upcoming[j])
                      /\ \A j \in 1..(i - 1) :
                           NextKey(upcoming[j]) > NextKey(upcoming[i])
       IN  {upcoming[first]}
  ELSE {upcoming[i] : i \in 1..Len(upcoming)}

\* displayedUpcomingAppointments without the filter of line 327
displayedUpcomingAppointments_KeepsNext(upcoming, next) == upcoming

displayedUpcomingAppointments(upcoming, next) ==
  IF next = NoAppointment THEN upcoming
  ELSE LET keep(a) == a.id # next.id
       IN  SelectSeq(upcoming, keep)

(***************************************************************************)
(* State.                                                                  *)
(***************************************************************************)
VARIABLES
  appointments,        \* the appointments table of the data store
  user,                \* useAuthStore().user
  now,                 \* Date.now(), as local wall-clock seconds
  tz,                  \* offset of the device's local time from UTC, hours
  mounted,             \* the screen's effects have run
  today,               \* the memoized local midnight of line 272
  userAppointments,    \* useState: the local list
  isLoading,           \* useState
  refreshing,          \* useState
  showCancelModal,     \* useState
  showLateCancelModal, \* useState
  selectedAppointment, \* useState; NoAppointment for null
  isCanceling,         \* useState
  loads,               \* the calls of loadUserAppointments in flight
  cancels,             \* the calls of confirmCancelAppointment in flight
  lastCancel,          \* history: the call of confirmCancelAppointment
                       \* that ended last, and what the user was shown
  hist,                \* history: counters, the last eligibility result,
                       \* the load that set the local list
  managerPhone,        \* useState; NoString for null
  managerLoad,         \* the call of loadManagerPhone: idle, sent, done
  handoffs,            \* the calls of contactManagerOnWhatsApp in flight
  lastContact          \* history: the alert contactManagerOnWhatsApp showed
                       \* last and the URL it opened last

vars == << appointments, user, now, tz, mounted, today, userAppointments,
           isLoading, refreshing, showCancelModal, showLateCancelModal,
           selectedAppointment, isCanceling, loads, cancels, lastCancel,
           hist, managerPhone, managerLoad, handoffs, lastContact >>

screenVars == << userAppointments, isLoading, refreshing, showCancelModal,
                 showLateCancelModal, selectedAppointment, isCanceling >>

contactVars == << managerPhone, managerLoad, handoffs, lastContact >>

NoContact == [alert |-> "none", opened |-> "none", phone |-> NoString]

\* a call of confirmCancelAppointment that has just started
NewCancel ==
  [n |-> 0, pc |-> "preread", target |-> NoAppointment,
   eligibility |-> "none", appointmentData |-> NoAppointment,
   mutation |-> "none", affected |-> 0, emitted |-> {}]

NoCancel == [n |-> 0, id |-> 0, report |-> "none", admin |-> "none"]

InitHist ==
  [ops |-> 0, started |-> 0, cancels |-> 0, eligibility |-> "none",
   listFrom |-> 0, latestOk |-> 0, latestData |-> <<>>]

Init ==
  /\ appointments = InitialRows
  /\ user \in {UserDa, UserNone}
  /\ now = FirstNow
  /\ tz \in TzOffsets
  /\ mounted = FALSE
  /\ today = LocalMidnight(FirstNow)
  /\ userAppointments = <<>>
  /\ isLoading = TRUE
  /\ refreshing = FALSE
  /\ showCancelModal = FALSE
  /\ showLateCancelModal = FALSE
  /\ selectedAppointment = NoAppointment
  /\ isCanceling = FALSE
  /\ loads = {}
  /\ cancels = {}
  /\ lastCancel = NoCancel
  /\ hist = InitHist
  /\ managerPhone = NoString
  /\ managerLoad = "idle"
  /\ handoffs = {}
  /\ lastContact = NoContact

(***************************************************************************)
(* The views rendered in the current state.                                *)
(***************************************************************************)
Verified == verifiedUserAppointments(userAppointments, user)
Upcoming == upcomingAppointments(Verified, today, tz)
Past == pastAppointments(Verified, today, tz)
NextChoices == nextAppointment(Upcoming)
Displayed(next) == displayedUpcomingAppointments(Upcoming, next)

\* the number on the badge of the upcoming tab (line 557)
UpcomingBadge == Len(Upcoming)

Range(seq) == {seq[i] : i \in 1..Len(seq)}

\* AnyModal for a late-cancel modal that does not cover the list
AnyModal_OnlyCancelModal == showCancelModal

AnyModal == showCancelModal \/ showLateCancelModal

(***************************************************************************)
(* loadUserAppointments(isRefresh), lines 194-239: the part that runs      *)
(* before the await.  u is the identity the callback closed over, h the    *)
(* history record the step extends.                                        *)
(***************************************************************************)
\* StartLoad without the early return of lines 195-202
StartLoad_AlwaysFetches(isRefresh, u, h) ==
  /\ IF isRefresh
     THEN refreshing' = TRUE /\ UNCHANGED isLoading
     ELSE isLoading' = TRUE /\ UNCHANGED refreshing
  /\ loads' = loads \cup
       {[seq |-> h.started + 1, isRefresh |-> isRefresh,
         userName |-> u.name, userPhone |-> u.phone,
         dates |-> LoadDates(now, tz),
         phase |-> "sent", data |-> <<>>]}
  /\ hist' = [h EXCEPT !.started = @ + 1]

StartLoad(isRefresh, u, h) ==
  IF ~Truthy(u.name) /\ ~Truthy(u.phone)
  THEN /\ IF isRefresh
          THEN refreshing' = FALSE /\ UNCHANGED isLoading
          ELSE isLoading' = FALSE /\ UNCHANGED refreshing
       /\ hist' = h
       /\ UNCHANGED loads
  ELSE /\ IF isRefresh
          THEN refreshing' = TRUE /\ UNCHANGED isLoading
          ELSE isLoading' = TRUE /\ UNCHANGED refreshing
       /\ loads' = loads \cup
            {[seq |-> h.started + 1, isRefresh |-> isRefresh,
              userName |-> u.name, userPhone |-> u.phone,
              dates |-> LoadDates(now, tz),
              phase |-> "sent", data |-> <<>>]}
       /\ hist' = [h EXCEPT !.started = @ + 1]

\* the effects of lines 134-160 and 241-243 on mount
Mount ==
  /\ ~mounted
  /\ mounted' = TRUE
  /\ StartLoad(FALSE, user, hist)
  /\ managerLoad' = "sent"
  /\ UNCHANGED << managerPhone, handoffs, lastContact >>
  /\ UNCHANGED << appointments, user, now, tz, today, userAppointments,
                  showCancelModal, showLateCancelModal, selectedAppointment,
                  isCanceling, cancels, lastCancel >>

\* the identity provider replaces the user; loadUserAppointments is
\* re-created (line 239) and the effect of lines 241-243 runs it
ChangeIdentity(u) ==
  /\ mounted
  /\ u # user
  /\ hist.ops < MaxOperations
  /\ user' = u
  /\ StartLoad(FALSE, u, [hist EXCEPT !.ops = @ + 1])
  /\ UNCHANGED << appointments, now, tz, mounted, today, userAppointments,
                  showCancelModal, showLateCancelModal, selectedAppointment,
                  isCanceling, cancels, lastCancel >>
  /\ UNCHANGED contactVars

\* onRefresh, lines 245-247: the pull-to-refresh control fires when it is
\* not refreshing and no modal covers the list
Refresh ==
  /\ mounted
  /\ ~refreshing
  /\ ~AnyModal
  /\ hist.ops < MaxOperations
  /\ StartLoad(TRUE, user, [hist EXCEPT !.ops = @ + 1])
  /\ UNCHANGED << appointments, user, now, tz, mounted, today,
                  userAppointments, showCancelModal, showLateCancelModal,
                  selectedAppointment, isCanceling, cancels, lastCancel >>
  /\ UNCHANGED contactVars

\* the data store evaluates the query of a load (line 44)
LoadQuery(l) ==
  /\ l \in loads
  /\ l.phase = "sent"
  /\ loads' = (loads \ {l}) \cup
       {[l EXCEPT !.phase = "answered",
                  !.data = ServerQuery(appointments, l.dates,
                                       l.userName, l.userPhone)]}
  /\ UNCHANGED << appointments, user, now, tz, mounted, today, screenVars,
                  cancels, lastCancel, hist >>
  /\ UNCHANGED contactVars

\* LoadFails without the finally of lines 232-238
LoadFails_NoFinally(l) ==
  /\ l \in loads
  /\ l.phase = "sent"
  /\ loads' = loads \ {l}
  /\ UNCHANGED << isLoading, refreshing >>
  /\ UNCHANGED << appointments, user, now, tz, mounted, today,
                  userAppointments, showCancelModal, showLateCancelModal,
                  selectedAppointment, isCanceling, cancels, lastCancel,
                  hist >>
  /\ UNCHANGED contactVars

\* the query fails (lines 46-49, 65-68): the rejection reaches the catch
\* and the finally of lines 230-238
LoadFails(l) ==
  /\ l \in loads
  /\ l.phase = "sent"
  /\ loads' = loads \ {l}
  /\ IF l.isRefresh
     THEN refreshing' = FALSE /\ UNCHANGED isLoading
     ELSE isLoading' = FALSE /\ UNCHANGED refreshing
  /\ UNCHANGED << appointments, user, now, tz, mounted, today,
                  userAppointments, showCancelModal, showLateCancelModal,
                  selectedAppointment, isCanceling, cancels, lastCancel,
                  hist >>
  /\ UNCHANGED contactVars

\* LoadResponds without the finally of lines 232-238
LoadResponds_NoFinally(l) ==
  /\ l \in loads
  /\ l.phase = "answered"
  /\ loads' = loads \ {l}
  /\ LET data == ClientSideFilter(l.data, l.userName, l.userPhone)
     IN  /\ userAppointments' = data
         /\ hist' = [hist EXCEPT
                       !.listFrom = l.seq,
                       !.latestOk = IF l.seq > @ THEN l.seq ELSE @,
                       !.latestData = IF l.seq > hist.latestOk THEN data ELSE @]
  /\ UNCHANGED << isLoading, refreshing >>
  /\ UNCHANGED << appointments, user, now, tz, mounted, today,
                  showCancelModal, showLateCancelModal, selectedAppointment,
                  isCanceling, cancels, lastCancel >>
  /\ UNCHANGED contactVars

\* the response of a load arrives: lines 51-64, then lines 229-238
LoadResponds(l) ==
  /\ l \in loads
  /\ l.phase = "answered"
  /\ loads' = loads \ {l}
  /\ LET data == ClientSideFilter(l.data, l.userName, l.userPhone)
     IN  /\ userAppointments' = data
         /\ hist' = [hist EXCEPT
                       !.listFrom = l.seq,
                       !.latestOk = IF l.seq > @ THEN l.seq ELSE @,
                       !.latestData = IF l.seq > hist.latestOk THEN data ELSE @]
  /\ IF l.isRefresh
     THEN refreshing' = FALSE /\ UNCHANGED isLoading
     ELSE isLoading' = FALSE /\ UNCHANGED refreshing
  /\ UNCHANGED << appointments, user, now, tz, mounted, today,
                  showCancelModal, showLateCancelModal, selectedAppointment,
                  isCanceling, cancels, lastCancel >>
  /\ UNCHANGED contactVars

(***************************************************************************)
(* The environment: the clock and the other sessions of the data store.    *)
(***************************************************************************)
\* time passes after the first render, which computed today (line 272) and
\* whose effects are the mount
Tick ==
  /\ mounted
  /\ \E t \in NowValues :
       /\ t > now
       /\ \A t2 \in NowValues : t2 > now => t <= t2
       /\ now' = t
  /\ UNCHANGED << appointments, user, tz, mounted, today, screenVars, loads,
                  cancels, lastCancel, hist >>
  /\ UNCHANGED contactVars

\* another session (a second device, the salon operator) frees a booked row
OtherSessionFrees(i) ==
  /\ hist.ops < MaxOperations
  /\ i \in ContendedRows
  /\ appointments[i].is_available = FALSE
  /\ appointments' = [appointments EXCEPT
                        ![i].is_available = TRUE,
                        ![i].client_name = NoString,
                        ![i].client_phone = NoString,
                        ![i].service_name = NoString]
  /\ hist' = [hist EXCEPT !.ops = @ + 1]
  /\ UNCHANGED << user, now, tz, mounted, today, screenVars, loads, cancels,
                  lastCancel >>
  /\ UNCHANGED contactVars

\* another session books an open row for another client
OtherSessionBooks(i) ==
  /\ hist.ops < MaxOperations
  /\ i \in ContendedRows
  /\ appointments[i].is_available = TRUE
  /\ appointments' = [appointments EXCEPT
                        ![i].is_available = FALSE,
                        ![i].client_name = NameDan,
                        ![i].client_phone = Phone59,
                        ![i].service_name = ServiceGel]
  /\ hist' = [hist EXCEPT !.ops = @ + 1]
  /\ UNCHANGED << user, now, tz, mounted, today, screenVars, loads, cancels,
                  lastCancel >>
  /\ UNCHANGED contactVars

(***************************************************************************)
(* handleCancelAppointment(appointment), lines 390-397.  The cancel button *)
(* is on the card of the next appointment (also while isLoading) and on    *)
(* the cards of the displayed upcoming list; a visible modal covers them.  *)
(***************************************************************************)
HasCancelButton(a) ==
  \E next \in NextChoices :
    \/ next # NoAppointment /\ a = next
    \/ ~isLoading /\ a \in Range(Displayed(next))

\* handleCancelAppointment without the return of line 394
handleCancelAppointment_NoReturn(a) ==
  /\ mounted
  /\ ~AnyModal
  /\ HasCancelButton(a)
  /\ selectedAppointment' = a
  /\ IF isWithin48Hours(a, now)
     THEN /\ showLateCancelModal' = TRUE
          /\ hist' = [hist EXCEPT !.eligibility = "WithinWindow"]
     ELSE /\ hist' = [hist EXCEPT !.eligibility = "Confirmable"]
          /\ UNCHANGED showLateCancelModal
  /\ showCancelModal' = TRUE
  /\ UNCHANGED << appointments, user, now, tz, mounted, today,
                  userAppointments, isLoading, refreshing, isCanceling,
                  loads, cancels, lastCancel >>
  /\ UNCHANGED contactVars

handleCancelAppointment(a) ==
  /\ mounted
  /\ ~AnyModal
  /\ HasCancelButton(a)
  /\ selectedAppointment' = a
  /\ IF isWithin48Hours(a, now)
     THEN /\ showLateCancelModal' = TRUE
          /\ hist' = [hist EXCEPT !.eligibility = "WithinWindow"]
          /\ UNCHANGED showCancelModal
     ELSE /\ showCancelModal' = TRUE
          /\ hist' = [hist EXCEPT !.eligibility = "Confirmable"]
          /\ UNCHANGED showLateCancelModal
  /\ UNCHANGED << appointments, user, now, tz, mounted, today,
                  userAppointments, isLoading, refreshing, isCanceling,
                  loads, cancels, lastCancel >>
  /\ UNCHANGED contactVars

\* the close button of the cancel modal (disabled while isCanceling,
\* line 718) and onRequestClose (line 695)
CloseCancelModal ==
  /\ showCancelModal
  /\ showCancelModal' = FALSE
  /\ UNCHANGED << appointments, user, now, tz, mounted, today,
                  userAppointments, isLoading, refreshing,
                  showLateCancelModal, selectedAppointment, isCanceling,
                  loads, cancels, lastCancel, hist >>
  /\ UNCHANGED contactVars

\* the close button and onRequestClose of the late-cancel modal
CloseLateCancelModal ==
  /\ showLateCancelModal
  /\ showLateCancelModal' = FALSE
  /\ UNCHANGED << appointments, user, now, tz, mounted, today,
                  userAppointments, isLoading, refreshing, showCancelModal,
                  selectedAppointment, isCanceling, loads, cancels,
                  lastCancel, hist >>
  /\ UNCHANGED contactVars

(***************************************************************************)
(* confirmCancelAppointment, lines 399-429, and                            *)
(* clientAppointmentsApi.cancelAppointment, lines 72-117.  A call in       *)
(* flight is a record of cancels; pc names the await it is suspended at.   *)
(***************************************************************************)
\* the confirm button without disabled={isCanceling}
ConfirmEnabled_NoBusyGuard == showCancelModal

\* the confirm button is pressable when the cancel modal is visible and
\* the button is not disabled (line 726)
ConfirmEnabled == showCancelModal /\ ~isCanceling

\* the tap on the confirm button: lines 400-402 and the request of line 75
ConfirmCancel ==
  /\ ConfirmEnabled
  /\ selectedAppointment # NoAppointment
  /\ hist.ops < MaxOperations
  /\ isCanceling' = TRUE
  /\ cancels' = cancels \cup
       {[NewCancel EXCEPT !.n = hist.cancels + 1,
                          !.target = selectedAppointment,
                          !.eligibility = hist.eligibility]}
  /\ hist' = [hist EXCEPT !.ops = @ + 1, !.cancels = @ + 1]
  /\ UNCHANGED << appointments, user, now, tz, mounted, today,
                  userAppointments, isLoading, refreshing, showCancelModal,
                  showLateCancelModal, selectedAppointment, loads,
                  lastCancel >>
  /\ UNCHANGED contactVars

\* a call in flight moves on to its next await
CancelContinues(op, op2) ==
  /\ cancels' = (cancels \ {op}) \cup {op2}
  /\ UNCHANGED << userAppointments, showCancelModal, selectedAppointment,
                  isCanceling, lastCancel, hist >>

\* CancelReturnsFalse without the finally of lines 426-428
CancelReturnsFalse_KeepsBusy(op) ==
  /\ cancels' = cancels \ {op}
  /\ lastCancel' = [n |-> op.n, id |-> op.target.id, report |-> "failure",
                    admin |-> "none"]
  /\ UNCHANGED << userAppointments, showCancelModal, selectedAppointment,
                  isCanceling, hist >>

\* cancelAppointment returned false: the alert of line 422 and the finally
CancelReturnsFalse(op) ==
  /\ cancels' = cancels \ {op}
  /\ lastCancel' = [n |-> op.n, id |-> op.target.id, report |-> "failure",
                    admin |-> "none"]
  /\ isCanceling' = FALSE
  /\ UNCHANGED << userAppointments, showCancelModal, selectedAppointment,
                  hist >>

\* CancelReturnsTrue without the removal of line 407
CancelReturnsTrue_KeepsList(op) ==
  LET keep(apt) == apt.id # op.target.id
  IN  /\ cancels' = cancels \ {op}
      /\ userAppointments' = userAppointments
      /\ showCancelModal' = FALSE
      /\ selectedAppointment' = NoAppointment
      /\ lastCancel' = [n |-> op.n, id |-> op.target.id, report |-> "success",
                        admin |-> "pending"]
      /\ isCanceling' = FALSE
      /\ hist' = [hist EXCEPT !.latestData = SelectSeq(@, keep)]

\* cancelAppointment returned true: lines 406-420, where the admin
\* notification is sent, and the finally
CancelReturnsTrue(op) ==
  LET keep(apt) == apt.id # op.target.id
  IN  /\ cancels' = cancels \ {op}
      /\ userAppointments' = SelectSeq(userAppointments, keep)
      /\ showCancelModal' = FALSE
      /\ selectedAppointment' = NoAppointment
      /\ lastCancel' = [n |-> op.n, id |-> op.target.id, report |-> "success",
                        admin |-> "pending"]
      /\ isCanceling' = FALSE
      /\ hist' = [hist EXCEPT !.latestData = SelectSeq(@, keep)]

\* the read of lines 75-79 answers: with an error (lines 81-84), or with
\* the one row of that id
CancelPreRead(op, ok) ==
  /\ op \in cancels
  /\ op.pc = "preread"
  /\ LET found == {i \in Rows : appointments[i].id = op.target.id}
     IN  IF ok /\ Cardinality(found) = 1
         THEN CancelContinues(op,
                [op EXCEPT !.pc = "update",
                           !.appointmentData =
                              appointments[CHOOSE i \in found : TRUE]])
         ELSE CancelReturnsFalse(op)
  /\ UNCHANGED << appointments, user, now, tz, mounted, today, isLoading,
                  refreshing, showLateCancelModal, loads >>
  /\ UNCHANGED contactVars

\* UpdateMatches without the filter of line 95 on the id
UpdateMatches_AnyId(table, slotId) ==
  {i \in DOMAIN table : table[i].is_available = FALSE}

\* the rows the update of lines 87-96 changes
UpdateMatches(table, slotId) ==
  {i \in DOMAIN table : table[i].id = slotId /\ table[i].is_available = FALSE}

\* the update of lines 87-96 answers: with an error (lines 98-101), or
\* without one after changing the rows it matched, which may be none;
\* then checkWaitlistAndNotify is called (line 106)
CancelUpdate(op, ok) ==
  /\ op \in cancels
  /\ op.pc = "update"
  /\ IF ok
     THEN LET matched == UpdateMatches(appointments, op.target.id)
          IN  /\ appointments' =
                   [i \in Rows |->
                      IF i \in matched
                      THEN [appointments[i] EXCEPT
                              !.is_available = TRUE,
                              !.client_name = NoString,
                              !.client_phone = NoString,
                              !.service_name = NoString]
                      ELSE appointments[i]]
              /\ CancelContinues(op,
                   [op EXCEPT !.pc = "notifySlot",
                              !.mutation = "answered",
                              !.affected = Cardinality(matched),
                              !.emitted = @ \cup {"slot"}])
     ELSE /\ CancelReturnsFalse(op)
          /\ UNCHANGED appointments
  /\ UNCHANGED << user, now, tz, mounted, today, isLoading, refreshing,
                  showLateCancelModal, loads >>
  /\ UNCHANGED contactVars

\* the promise of checkWaitlistAndNotify settles (line 106): fulfilled,
\* then notifyServiceWaitlistClients is called (line 109); or rejected,
\* which the catch of lines 113-116 turns into false
NotifySlotSettles(op, ok) ==
  /\ op \in cancels
  /\ op.pc = "notifySlot"
  /\ IF ok
     THEN CancelContinues(op,
            [op EXCEPT !.pc = "notifyService",
                       !.emitted = @ \cup {"service"}])
     ELSE CancelReturnsFalse(op)
  /\ UNCHANGED << appointments, user, now, tz, mounted, today, isLoading,
                  refreshing, showLateCancelModal, loads >>
  /\ UNCHANGED contactVars

\* the promise of notifyServiceWaitlistClients settles (line 109)
NotifyServiceSettles(op, ok) ==
  /\ op \in cancels
  /\ op.pc = "notifyService"
  /\ IF ok
     THEN CancelReturnsTrue(op)
     ELSE CancelReturnsFalse(op)
  /\ UNCHANGED << appointments, user, now, tz, mounted, today, isLoading,
                  refreshing, showLateCancelModal, loads >>
  /\ UNCHANGED contactVars

\* the promise of a waitlist notifier (line 106 or 109) stays pending for
\* ever: the call of cancelAppointment stays suspended at its await
NotifierNeverSettles(op) ==
  /\ op \in cancels
  /\ op.pc \in {"notifySlot", "notifyService"}
  /\ cancels' = (cancels \ {op}) \cup {[op EXCEPT !.pc = "suspended"]}
  /\ UNCHANGED << appointments, user, now, tz, mounted, today, screenVars,
                  loads, lastCancel, hist >>
  /\ UNCHANGED contactVars

\* the promise of createAdminNotification settles; a rejection is
\* swallowed by the catch of line 420
AdminNotificationSettles(ok) ==
  /\ lastCancel.admin = "pending"
  /\ lastCancel' = [lastCancel EXCEPT !.admin = IF ok THEN "ok" ELSE "failed"]
  /\ UNCHANGED << appointments, user, now, tz, mounted, today, screenVars,
                  loads, cancels, hist >>
  /\ UNCHANGED contactVars

(***************************************************************************)
(* loadManagerPhone, lines 134-160, and contactManagerOnWhatsApp, lines    *)
(* 174-192, called by the message button of the late-cancel modal (lines   *)
(* 790-799).  The text of the message is not modelled.                     *)
(***************************************************************************)
\* phone.replace(/\D/g, '')
RECURSIVE DigitsOnly(_)
DigitsOnly(s) ==
  IF s = <<>> THEN <<>>
  ELSE IF Head(s) \in Digits THEN <<Head(s)>> \o DigitsOnly(Tail(s))
  ELSE DigitsOnly(Tail(s))

\* the normalisation of lines 146-152
NormalizePhone(phone) ==
  LET numeric == DigitsOnly(phone)
  IN  IF numeric # <<>> /\ Head(numeric) = "0" /\ Len(numeric) >= 9
      THEN <<"9", "7", "2">> \o Tail(numeric)
      ELSE numeric

\* the phone of the first admin user the query of lines 137-144 can return
AdminPhones ==
  { <<"0", "5", "0", "-", "1", "2", "3", "4", "5", "6">>, <<"n", "/", "a">> }

\* the query of lines 137-144 settles: with an admin row holding phone;
\* with no row or an error (nothing is set, line 145); or by throwing
\* (lines 155-157)
LoadManagerPhoneSettles(outcome, phone) ==
  /\ managerLoad = "sent"
  /\ managerLoad' = "done"
  /\ managerPhone' =
       CASE outcome = "row" -> NormalizePhone(phone)
         [] outcome = "throws" -> NoString
         [] OTHER -> managerPhone
  /\ UNCHANGED << appointments, user, now, tz, mounted, today, screenVars,
                  loads, cancels, lastCancel, hist, handoffs, lastContact >>

\* contactManagerOnWhatsApp without the check of lines 175-178
contactManagerOnWhatsApp_NoPhoneCheck ==
  /\ handoffs' = handoffs \cup
       {[n |-> hist.ops + 1, pc |-> "canOpenURL", phone |-> managerPhone]}
  /\ UNCHANGED lastContact

\* contactManagerOnWhatsApp up to its first await (lines 175-183)
contactManagerOnWhatsApp ==
  IF ~Truthy(managerPhone)
  THEN /\ lastContact' = [lastContact EXCEPT !.alert = "managerUnavailable"]
       /\ UNCHANGED handoffs
  ELSE /\ handoffs' = handoffs \cup
            {[n |-> hist.ops + 1, pc |-> "canOpenURL", phone |-> managerPhone]}
       /\ UNCHANGED lastContact

\* the message button of the late-cancel modal, lines 790-799
PressMessageButton ==
  /\ showLateCancelModal
  /\ hist.ops < MaxOperations
  /\ contactManagerOnWhatsApp
  /\ showLateCancelModal' = FALSE
  /\ hist' = [hist EXCEPT !.ops = @ + 1]
  /\ UNCHANGED << appointments, user, now, tz, mounted, today,
                  userAppointments, isLoading, refreshing, showCancelModal,
                  selectedAppointment, isCanceling, loads, cancels,
                  lastCancel, managerPhone, managerLoad >>

\* a call of contactManagerOnWhatsApp ends in the catch of lines 189-191
HandoffFails(h) ==
  /\ handoffs' = handoffs \ {h}
  /\ lastContact' = [lastContact EXCEPT !.alert = "cannotOpenWhatsApp"]

\* Linking.canOpenURL(appUrl) settles (line 183): the app URL or the web
\* URL is opened (lines 184-188), or the rejection is caught
CanOpenURLSettles(h, outcome) ==
  /\ h \in handoffs
  /\ h.pc = "canOpenURL"
  /\ IF outcome = "rejected"
     THEN HandoffFails(h)
     ELSE /\ handoffs' = (handoffs \ {h}) \cup
               {[h EXCEPT !.pc = IF outcome = "yes" THEN "openApp"
                                                   ELSE "openWeb"]}
          /\ UNCHANGED lastContact
  /\ UNCHANGED << appointments, user, now, tz, mounted, today, screenVars,
                  loads, cancels, lastCancel, hist, managerPhone,
                  managerLoad >>

\* Linking.openURL settles (lines 185, 187)
OpenURLSettles(h, ok) ==
  /\ h \in handoffs
  /\ h.pc \in {"openApp", "openWeb"}
  /\ IF ok
     THEN /\ handoffs' = handoffs \ {h}
          /\ lastContact' = [lastContact EXCEPT
                               !.opened = IF h.pc = "openApp" THEN "app"
                                                              ELSE "web",
                               !.phone = h.phone]
     ELSE HandoffFails(h)
  /\ UNCHANGED << appointments, user, now, tz, mounted, today, screenVars,
                  loads, cancels, lastCancel, hist, managerPhone,
                  managerLoad >>

(***************************************************************************)
(* Specification.                                                          *)
(***************************************************************************)
Next ==
  \/ Mount
  \/ \E u \in Identities : ChangeIdentity(u)
  \/ Refresh
  \/ \E l \in loads : LoadQuery(l)
  \/ \E l \in loads : LoadFails(l)
  \/ \E l \in loads : LoadResponds(l)
  \/ Tick
  \/ \E i \in Rows : OtherSessionFrees(i)
  \/ \E i \in Rows : OtherSessionBooks(i)
  \/ \E a \in Range(userAppointments) : handleCancelAppointment(a)
  \/ CloseCancelModal
  \/ CloseLateCancelModal
  \/ ConfirmCancel
  \/ \E op \in cancels, ok \in BOOLEAN : CancelPreRead(op, ok)
  \/ \E op \in cancels, ok \in BOOLEAN : CancelUpdate(op, ok)
  \/ \E op \in cancels, ok \in BOOLEAN : NotifySlotSettles(op, ok)
  \/ \E op \in cancels, ok \in BOOLEAN : NotifyServiceSettles(op, ok)
  \/ \E op \in cancels : NotifierNeverSettles(op)
  \/ \E ok \in BOOLEAN : AdminNotificationSettles(ok)

Spec == Init /\ [][Next]_vars

\* Every request of a cancel to the data store is answered and every
\* continuation of an await whose promise settles runs; a notifier promise
\* settles unless it is one that stays pending for ever.
SpecStoreResponds ==
  /\ Init
  /\ [][Next]_vars
  /\ WF_vars(\E op \in cancels, ok \in BOOLEAN : CancelPreRead(op, ok))
  /\ WF_vars(\E op \in cancels, ok \in BOOLEAN : CancelUpdate(op, ok))
  /\ WF_vars(\E op \in cancels :
               \/ \E ok \in BOOLEAN : NotifySlotSettles(op, ok)
               \/ \E ok \in BOOLEAN : NotifyServiceSettles(op, ok)
               \/ NotifierNeverSettles(op))

(***************************************************************************)
(* The screen with collaborators that respond: every request of a cancel   *)
(* to the data store is answered and every notifier promise settles.       *)
(***************************************************************************)
NextResponding ==
  \/ Mount
  \/ \E u \in Identities : ChangeIdentity(u)
  \/ Refresh
  \/ \E l \in loads : LoadQuery(l)
  \/ \E l \in loads : LoadFails(l)
  \/ \E l \in loads : LoadResponds(l)
  \/ Tick
  \/ \E i \in Rows : OtherSessionFrees(i)
  \/ \E i \in Rows : OtherSessionBooks(i)
  \/ \E a \in Range(userAppointments) : handleCancelAppointment(a)
  \/ CloseCancelModal
  \/ CloseLateCancelModal
  \/ ConfirmCancel
  \/ \E op \in cancels, ok \in BOOLEAN : CancelPreRead(op, ok)
  \/ \E op \in cancels, ok \in BOOLEAN : CancelUpdate(op, ok)
  \/ \E op \in cancels, ok \in BOOLEAN : NotifySlotSettles(op, ok)
  \/ \E op \in cancels, ok \in BOOLEAN : NotifyServiceSettles(op, ok)
  \/ \E ok \in BOOLEAN : AdminNotificationSettles(ok)

SpecResponding ==
  /\ Init
  /\ [][NextResponding]_vars
  /\ WF_vars(\E op \in cancels, ok \in BOOLEAN : CancelPreRead(op, ok))
  /\ WF_vars(\E op \in cancels, ok \in BOOLEAN : CancelUpdate(op, ok))
  /\ WF_vars(\E op \in cancels, ok \in BOOLEAN : NotifySlotSettles(op, ok))
  /\ WF_vars(\E op \in cancels, ok \in BOOLEAN : NotifyServiceSettles(op, ok))

(***************************************************************************)
(* The screen together with the manager contact.  The contact of the       *)
(* manager shares with the rest of the screen only the late-cancel modal,  *)
(* which the message button closes as the close button does; Spec leaves   *)
(* the contact out.  SpecContact adds it to the operations of the screen,  *)
(* for one time zone, with the clock at the instant of the mount and no    *)
(* other session changing the table.                                       *)
(***************************************************************************)
InitContact ==
  /\ Init
  /\ tz = 2

NextContact ==
  \/ Mount
  \/ \E u \in Identities : ChangeIdentity(u)
  \/ Refresh
  \/ \E l \in loads : LoadQuery(l)
  \/ \E l \in loads : LoadFails(l)
  \/ \E l \in loads : LoadResponds(l)
  \/ \E a \in Range(userAppointments) : handleCancelAppointment(a)
  \/ CloseCancelModal
  \/ CloseLateCancelModal
  \/ ConfirmCancel
  \/ \E op \in cancels, ok \in BOOLEAN : CancelPreRead(op, ok)
  \/ \E op \in cancels, ok \in BOOLEAN : CancelUpdate(op, ok)
  \/ \E op \in cancels, ok \in BOOLEAN : NotifySlotSettles(op, ok)
  \/ \E op \in cancels, ok \in BOOLEAN : NotifyServiceSettles(op, ok)
  \/ \E ok \in BOOLEAN : AdminNotificationSettles(ok)
  \/ \E outcome \in {"row", "none", "error", "throws"}, phone \in AdminPhones :
       LoadManagerPhoneSettles(outcome, phone)
  \/ PressMessageButton
  \/ \E h \in handoffs, outcome \in {"yes", "no", "rejected"} :
       CanOpenURLSettles(h, outcome)
  \/ \E h \in handoffs, ok \in BOOLEAN : OpenURLSettles(h, ok)

SpecContact == InitContact /\ [][NextContact]_vars

(***************************************************************************)
(* The eligibility rule on its own: isWithin48Hours applied to one         *)
(* appointment at one instant, both drawn from the sets below.             *)
(***************************************************************************)
ProbeTimes ==
  { NoString, Time1000, Time930,
    <<"1", "0">>, <<":", "3", "0">>, <<"9", ":", "5">>, <<"9", ":">>,
    <<"1", "0", ":", "0", "0", ":", "0", "0">>,
    <<"a", "b">>, <<"2", "5", ":", "0", "0">> }

ProbeDates == {Day0 + 2, Day0 + 3}

ProbeAppointments ==
  {Slot(1, d, t, NameDa, Phone51, ServiceGel, FALSE) :
     d \in ProbeDates, t \in ProbeTimes}

\* around 48 hours before 00:00, 00:30, 09:00, 09:05, 09:30 and 10:00 of
\* day Day0 + 2
ProbeNows ==
  {Day0 * SecondsPerDay + s + k :
     s \in {0, 1800, 32400, 32700, 34200, 36000}, k \in {-1, 0, 1}}

InitElig ==
  /\ appointments = InitialRows
  /\ user = UserDa
  /\ now \in ProbeNows
  /\ tz = 2
  /\ mounted = FALSE
  /\ today = LocalMidnight(FirstNow)
  /\ userAppointments = <<>>
  /\ isLoading = TRUE
  /\ refreshing = FALSE
  /\ showCancelModal = FALSE
  /\ showLateCancelModal = FALSE
  /\ selectedAppointment \in ProbeAppointments
  /\ isCanceling = FALSE
  /\ loads = {}
  /\ cancels = {}
  /\ lastCancel = NoCancel
  /\ hist = InitHist
  /\ managerPhone = NoString
  /\ managerLoad = "idle"
  /\ handoffs = {}
  /\ lastContact = NoContact

ProbeEligibility ==
  /\ hist.eligibility = "none"
  /\ hist' = [hist EXCEPT !.eligibility =
                IF isWithin48Hours(selectedAppointment, now)
                THEN "WithinWindow" ELSE "Confirmable"]
  /\ UNCHANGED << appointments, user, now, tz, mounted, today, screenVars,
                  loads, cancels, lastCancel >>
  /\ UNCHANGED contactVars

NextElig == ProbeEligibility

SpecElig == InitElig /\ [][NextElig]_vars

(***************************************************************************)
(* The classifier on its own: the views of lists that hold a record more   *)
(* than once and records that share an id, in the order of the query.      *)
(***************************************************************************)
Copies(r, n) == [i \in 1..n |-> r]

ProbePast == Slot(1, Day0 - 2, Time1000, NameDa, Phone51, ServiceGel, FALSE)
ProbeFirst == Slot(1, Day0 + 2, Time1000, NameDa, Phone51, ServiceGel, FALSE)
ProbeSecond == Slot(2, Day0 + 1, Time1430, NameDa, Phone51, ServiceGel, FALSE)
ProbeThird == Slot(1, Day0 + 3, Time1430, NameDa, Phone51, ServiceGel, FALSE)

ProbeLists ==
  {Copies(ProbePast, p) \o Copies(ProbeSecond, b) \o Copies(ProbeFirst, a)
     \o Copies(ProbeThird, c) :
     p \in 0..MaxCopies, a \in 0..MaxCopies, b \in 0..MaxCopies,
     c \in 0..MaxCopies}

InitClassify ==
  /\ appointments = InitialRows
  /\ user = UserDa
  /\ now = FirstNow
  /\ tz = 2
  /\ mounted = TRUE
  /\ today = LocalMidnight(FirstNow)
  /\ userAppointments \in ProbeLists
  /\ isLoading = FALSE
  /\ refreshing = FALSE
  /\ showCancelModal = FALSE
  /\ showLateCancelModal = FALSE
  /\ selectedAppointment = NoAppointment
  /\ isCanceling = FALSE
  /\ loads = {}
  /\ cancels = {}
  /\ lastCancel = NoCancel
  /\ hist = InitHist
  /\ managerPhone = NoString
  /\ managerLoad = "sent"
  /\ handoffs = {}
  /\ lastContact = NoContact

\* the views are rendered and the cancel buttons they show are pressed
NextClassify ==
  \/ \E a \in Range(userAppointments) : handleCancelAppointment(a)
  \/ CloseCancelModal
  \/ CloseLateCancelModal

SpecClassify == InitClassify /\ [][NextClassify]_vars

(***************************************************************************)
(* Properties.                                                             *)
(***************************************************************************)
Ids(list) == {list[i].id : i \in 1..Len(list)}

\* the step in which the call op of confirmCancelAppointment ends
CancelEnds(op) == op \in cancels /\ op \notin cancels' /\ lastCancel'.n = op.n

\* C1: a cancel whose update is answered without error but changes no row,
\* because the record is already available, is reported as a failure and
\* leaves userAppointments as it was.
C1_ZeroRowCancelIsFailure ==
  [][ \A op \in cancels :
        (CancelEnds(op) /\ op.mutation = "answered" /\ op.affected = 0)
          => (lastCancel'.report = "failure"
              /\ userAppointments' = userAppointments) ]_vars

\* C2: once the update has freed the record, the cancel ends as a success
\* with the record removed from the local list, also when the step that
\* ends it is the failure of a waitlist notifier; and the failure of the
\* admin notification leaves the success reported.
C2_NotificationFailureKeepsSuccess ==
  [][ /\ \A op \in cancels :
           (CancelEnds(op) /\ op.affected >= 1)
             => (lastCancel'.report = "success"
                 /\ op.target.id \notin Ids(userAppointments'))
      /\ (lastCancel'.admin = "failed" => lastCancel'.report = "success")
    ]_vars

\* C3: when the update of a cancel has freed the record and a waitlist
\* notifier call of that cancel never completes, the cancel still ends
\* reported as a success with isCanceling cleared.
C3_SuccessDoesNotWaitForNotifiers ==
  \A n \in 1..MaxOperations :
    (\E op \in cancels : op.n = n /\ op.affected >= 1 /\ op.pc = "suspended")
      ~> (lastCancel.n = n /\ lastCancel.report = "success" /\ ~isCanceling)

\* C4: every call of confirmCancelAppointment in flight, so every request
\* to the data store for a cancel, was started for a selection that
\* handleCancelAppointment found not within 48 hours.
C4_MutationOnlyFromConfirmable ==
  \A op \in cancels : op.eligibility = "Confirmable"

\* the update of a cancel is in flight for an appointment that was
\* Confirmable when selected and has come within 48 hours since
C4_Witness ==
  \E op \in cancels :
    /\ op.pc = "update"
    /\ op.eligibility = "Confirmable"
    /\ isWithin48Hours(op.target, now)

\* C5: isWithin48Hours is true exactly when the appointment's date-time,
\* with a missing or partial time read as the time it denotes (missing
\* parts 00), is less than 48 hours after now.
RefNumber(s) ==
  CASE Len(s) = 0 -> 0
    [] Len(s) = 1 -> DigitValue(s[1])
    [] OTHER -> 10 * DigitValue(s[1]) + DigitValue(s[2])

RefPiece(time, k) ==
  LET parts == split(time, ":")
  IN  IF Len(parts) >= k THEN parts[k] ELSE <<>>

RefDenotesTime(time) ==
  /\ \A i \in 1..Len(time) : time[i] \in Digits \cup {":"}
  /\ Len(split(time, ":")) <= 3
  /\ \A k \in 1..3 : Len(RefPiece(time, k)) <= 2
  /\ RefNumber(RefPiece(time, 1)) <= 23
  /\ RefNumber(RefPiece(time, 2)) <= 59

RefDateTime(a) ==
  a.slot_date * SecondsPerDay
    + RefNumber(RefPiece(a.slot_time, 1)) * 3600
    + RefNumber(RefPiece(a.slot_time, 2)) * 60

C5_StrictLessThan48Hours ==
  (hist.eligibility # "none" /\ RefDenotesTime(selectedAppointment.slot_time))
    => (hist.eligibility = "WithinWindow"
          <=> RefDateTime(selectedAppointment) - now < 48 * 3600)

C5_Witness ==
  /\ hist.eligibility = "Confirmable"
  /\ selectedAppointment.slot_time = Time930
  /\ RefDateTime(selectedAppointment) - now = 48 * 3600

\* C6: at most one call of confirmCancelAppointment is in flight, and
\* isCanceling is set for as long as it is.
C6_OneCancelInFlight ==
  /\ Cardinality(cancels) <= 1
  /\ cancels # {} => isCanceling

\* a call is in flight and the cancel modal with its confirm button is
\* still on screen: a second tap is possible
C6_Witness ==
  /\ cancels # {}
  /\ showCancelModal
  /\ isCanceling

\* C7: when no load is in flight, the rendered list is the one of the load
\* that was started last among those that delivered a result.
C7_LastStartedLoadWins ==
  (loads = {} /\ hist.latestOk > 0)
    => verifiedUserAppointments(userAppointments, user)
         = verifiedUserAppointments(hist.latestData, user)

\* the records of the classifier's views in the current state
ViewRecords ==
  Range(Upcoming) \cup Range(Past) \cup (NextChoices \ {NoAppointment})
    \cup UNION {Range(Displayed(next)) : next \in NextChoices}

RefBelongs(r, u) ==
  \/ /\ r.client_name # NoString /\ u.name # NoString
     /\ toLowerCase(trim(r.client_name)) = toLowerCase(trim(u.name))
  \/ /\ r.client_phone # NoString /\ u.phone # NoString
     /\ trim(r.client_phone) = trim(u.phone)

\* C8: every record of upcoming, past, next and the displayed list belongs
\* to the current identity by name or by phone.
C8_ViewsBelongToIdentity ==
  \A r \in ViewRecords : RefBelongs(r, user)

C8_Witness ==
  /\ ViewRecords # {}
  /\ \E r \in Range(userAppointments) : ~RefBelongs(r, user)

\* C9: no record of upcoming, past, next or the displayed list is an open
\* slot.
C9_NoOpenSlotInViews ==
  \A r \in ViewRecords : r.is_available = FALSE

C9_Witness ==
  /\ ViewRecords # {}
  /\ \E i \in Rows : /\ appointments[i].is_available
                     /\ RefBelongs(appointments[i], user)
                     /\ \E l \in loads : /\ l.phase = "answered"
                                         /\ appointments[i].slot_date \in l.dates

\* C10: upcoming and past are disjoint and together hold every verified
\* record once.
C10_UpcomingPastPartition ==
  /\ Range(Upcoming) \cap Range(Past) = {}
  /\ Range(Upcoming) \cup Range(Past) = Range(Verified)
  /\ Len(Upcoming) + Len(Past) = Len(Verified)

C10_Witness ==
  /\ Upcoming # <<>>
  /\ Past # <<>>
  /\ \E r \in Range(Verified) : DateOnlyLocalMidnight(r.slot_date, tz) = today

\* the calendar day of the local instant t
LocalDay(t) == FloorDiv(t, SecondsPerDay)

\* a step that sets the local list to a new array (a load delivered, a
\* cancel removed a record), after which the views are computed again
ListIsSet ==
  \/ \E l \in loads : LoadResponds(l)
  \/ userAppointments' # userAppointments

\* C11: in every classification pass, a verified record with a date is
\* upcoming iff its date is on or after the calendar day of that moment,
\* and past otherwise, also when that day is later than the day of the mount.
C11_ClassifiedAgainstCurrentDay ==
  [][ ListIsSet
        => \A r \in Range(Verified)' :
             r.slot_date \notin {NoDate, BadDate}
               => /\ r \in Range(Upcoming)' <=> r.slot_date >= LocalDay(now')
                  /\ r \in Range(Past)' <=> r.slot_date < LocalDay(now') ]_vars

\* the composed timestamp of a record with a malformed time counted as 00:00
RefDateTimeOrMidnight(a) ==
  IF NextKey(a) # NaN THEN NextKey(a) ELSE a.slot_date * SecondsPerDay

\* next is least among upcoming by the timestamp stamp(_)
RefIsLeast(next, stamp(_)) ==
  \A r \in Range(Upcoming) : stamp(next) <= stamp(r)

\* C12: next is absent iff upcoming is empty; otherwise next is a record of
\* upcoming whose composed timestamp is at most that of every upcoming
\* record, a missing time counted as 00:00 and a malformed time such as H:MM
\* as the time it denotes or as 00:00.
C12_NextIsEarliestUpcoming ==
  \A next \in NextChoices :
    /\ next = NoAppointment <=> Upcoming = <<>>
    /\ next # NoAppointment
         => /\ next \in Range(Upcoming)
            /\ \/ RefIsLeast(next, RefDateTime)
               \/ RefIsLeast(next, RefDateTimeOrMidnight)

\* C13: a cancel that ends without having freed a row (the pre-read failed,
\* the update returned an error, or the update changed no row) is reported
\* as a failure, leaves userAppointments as it was, and has emitted no
\* waitlist notification and no admin notification.
C13_FailedCancelHasNoEffect ==
  [][ \A op \in cancels :
        (CancelEnds(op) /\ op.affected = 0)
          => /\ lastCancel'.report = "failure"
             /\ userAppointments' = userAppointments
             /\ op.emitted = {}
             /\ lastCancel'.admin = "none" ]_vars

\* the records of the classifier's views for a list, an identity, a
\* memoized today and a time zone
ViewRecordsOf(list, u, td, z) ==
  LET up == upcomingAppointments(verifiedUserAppointments(list, u), td, z)
      pa == pastAppointments(verifiedUserAppointments(list, u), td, z)
      nx == nextAppointment(up)
  IN  Range(up) \cup Range(pa) \cup (nx \ {NoAppointment})
        \cup UNION {Range(displayedUpcomingAppointments(up, next)) : next \in nx}

\* C14: the step in which a cancel ends as a success removes the records of
\* the cancelled id from the local list and keeps every other record in
\* place, so that none of upcoming, past, next and the displayed list holds
\* the id; it closes the cancel modal and clears the selection.
C14_SuccessRemovesOnlyTheCancelled ==
  [][ \A op \in cancels :
        (CancelEnds(op) /\ lastCancel'.report = "success")
          => /\ LET other(apt) == apt.id # op.target.id
                IN  userAppointments' = SelectSeq(userAppointments, other)
             /\ op.target.id \notin Ids(userAppointments')
             /\ op.target.id \notin {r.id : r \in ViewRecordsOf(userAppointments', user', today', tz')}
             /\ ~showCancelModal'
             /\ selectedAppointment' = NoAppointment ]_vars

\* a cancel of appointment 1 has ended as a success: the list has lost the
\* record and kept others
C14_Witness ==
  /\ lastCancel.report = "success"
  /\ 1 \notin Ids(userAppointments)
  /\ 7 \in Ids(userAppointments)
  /\ ~showCancelModal
  /\ selectedAppointment = NoAppointment

NoIdentity(u) == u.name = NoString /\ u.phone = NoString

ViewsAreEmpty ==
  Upcoming = <<>> /\ Past = <<>> /\ NextChoices = {NoAppointment}

\* C15: while the identity has neither name nor phone, upcoming and past
\* are empty and next is absent whatever the local list holds, and no step
\* taken with such an identity (mount, refresh, change to it) starts a
\* fetch.
C15_NoIdentityNoViewsNoFetch ==
  [][ /\ NoIdentity(user) => ViewsAreEmpty
      /\ NoIdentity(user')
           => /\ Len(upcomingAppointments(
                       verifiedUserAppointments(userAppointments', user'),
                       today', tz')) = 0
              /\ Len(pastAppointments(
                       verifiedUserAppointments(userAppointments', user'),
                       today', tz')) = 0
              /\ {l.seq : l \in loads'} \subseteq {l.seq : l \in loads} ]_vars

\* the identity has become empty while the list still holds the records of
\* the previous identity, and a pull-to-refresh has run since
C15_Witness ==
  /\ NoIdentity(user)
  /\ userAppointments # <<>>
  /\ hist.ops = 2
  /\ ~refreshing

\* C16: when the message button is pressed while managerPhone is null, no
\* call to the messaging collaborator is started and the alert shown is the
\* 'manager number unavailable' one; the alert of a handoff that fails is
\* another one.
C16_NoManagerPhoneNoHandoff ==
  [][ /\ (PressMessageButton /\ managerPhone = NoString)
           => /\ handoffs' = handoffs
              /\ lastContact'.alert = "managerUnavailable"
              /\ lastContact'.opened = lastContact.opened
      /\ \A h \in handoffs :
           (CanOpenURLSettles(h, "rejected") \/ OpenURLSettles(h, FALSE))
             => lastContact'.alert = "cannotOpenWhatsApp"
      /\ \A h \in handoffs' : h.phone # NoString ]_vars

\* the message button was pressed before a manager phone was loaded
C16_Witness ==
  /\ lastContact.alert = "managerUnavailable"
  /\ managerPhone = NoString
  /\ handoffs = {}
  /\ ~showLateCancelModal
  /\ selectedAppointment # NoAppointment

\* the number of times the record r occurs in the list
Count(list, r) == Cardinality({i \in 1..Len(list) : list[i] = r})

Usable ==
  /\ (mounted /\ \A l \in loads : l.isRefresh) => ~isLoading
  /\ (\A l \in loads : ~l.isRefresh) => ~refreshing
  /\ cancels = {} => ~isCanceling

\* C18: every failure of a collaborator ends the operation it belongs to in
\* a defined outcome: a failed load leaves the list and clears its
\* indicator; a failed cancel shows the failure alert, leaves the list and
\* clears isCanceling; a failed admin notification is dropped; a failed
\* manager-phone load leaves managerPhone null; a failed handoff shows its
\* alert.  After every step no busy indicator is left set without its
\* operation in flight.
C18_FailuresEndInDefinedOutcome ==
  [][ /\ \A l \in loads :
           LoadFails(l)
             => /\ userAppointments' = userAppointments
                /\ IF l.isRefresh THEN ~refreshing' ELSE ~isLoading'
      /\ \A op \in cancels :
           (CancelEnds(op) /\ lastCancel'.report = "failure")
             => /\ userAppointments' = userAppointments
                /\ (cancels' = {} => ~isCanceling')
      /\ AdminNotificationSettles(FALSE)
           => /\ lastCancel'.report = "success"
              /\ lastCancel'.admin = "failed"
      /\ (\E phone \in AdminPhones :
             \/ LoadManagerPhoneSettles("error", phone)
             \/ LoadManagerPhoneSettles("throws", phone))
           => managerPhone' = NoString /\ managerLoad' = "done"
      /\ \A h \in handoffs :
           (CanOpenURLSettles(h, "rejected") \/ OpenURLSettles(h, FALSE))
             => /\ h \notin handoffs'
                /\ lastContact'.alert = "cannotOpenWhatsApp"
      /\ Usable' ]_vars

\* a cancel has failed and the manager-phone load has ended without a
\* phone; nothing is in flight and no indicator is set
C18_Witness ==
  /\ mounted
  /\ loads = {}
  /\ cancels = {}
  /\ userAppointments # <<>>
  /\ lastCancel.report = "failure"
  /\ managerLoad = "done"
  /\ managerPhone = NoString
  /\ ~isLoading /\ ~refreshing /\ ~isCanceling

\* the row after the update of the cancel has been applied to it
RefFreed(row) ==
  [row EXCEPT !.is_available = TRUE, !.client_name = NoString,
              !.client_phone = NoString, !.service_name = NoString]

\* C19: the step in which the update of a cancel is answered changes, in
\* the table, only the rows of the cancel's id that are booked at that
\* moment, which it makes available with client name, client phone and
\* service name cleared; a row that is available and every row of another
\* id stay as they are.
C19_UpdateIsConditionalOnIdAndBooked ==
  [][ /\ \A op \in cancels :
           /\ CancelUpdate(op, TRUE)
                => \A i \in Rows :
                     appointments'[i] =
                       IF /\ appointments[i].id = op.target.id
                          /\ appointments[i].is_available = FALSE
                       THEN RefFreed(appointments[i])
                       ELSE appointments[i]
           /\ CancelUpdate(op, FALSE) => appointments' = appointments
      /\ appointments' # appointments
           => \/ \E op \in cancels : CancelUpdate(op, TRUE)
              \/ \E i \in Rows : OtherSessionFrees(i) \/ OtherSessionBooks(i)
    ]_vars

\* the update of a cancel of appointment 1 was answered after another
\* session had freed the row: it matched no row and the row is as that
\* session left it
C19_Witness ==
  \E op \in cancels :
    /\ op.mutation = "answered"
    /\ op.affected = 0
    /\ op.target.id = 1
    /\ appointments[1] = RefFreed(InitialRows[1])
    /\ \A i \in Rows \ {1} : appointments[i] = InitialRows[i]

\* C20: a cancel whose update freed the record ends with all three
\* post-commit emissions made, whatever the outcome of each: both waitlist
\* notifiers were called and the admin notification is sent.
C20_EmissionsAreIndependent ==
  [][ \A op \in cancels :
        (CancelEnds(op) /\ op.affected >= 1)
          => /\ {"slot", "service"} \subseteq op.emitted
             /\ lastCancel'.admin = "pending" ]_vars

\* C21: whenever next is present it is a record of upcoming, the displayed
\* upcoming list does not hold it and holds every other upcoming record,
\* in the order of upcoming, and the number on the badge of the upcoming
\* tab is the size of upcoming, one more than the displayed list; with no
\* next the displayed list is upcoming.
C21_DisplayedIsUpcomingWithoutNext ==
  LET up == Upcoming
  IN  \A next \in nextAppointment(up) :
        LET shown == displayedUpcomingAppointments(up, next)
            other(r) == r # next
        IN  IF next = NoAppointment
            THEN shown = up /\ UpcomingBadge = 0
            ELSE /\ next \in Range(up)
                 /\ next \notin Range(shown)
                 /\ shown = SelectSeq(up, other)
                 /\ UpcomingBadge = Len(up)
                 /\ UpcomingBadge = Len(shown) + 1

\* next is on its card and other upcoming records are in the list below it
C21_Witness ==
  \E next \in NextChoices :
    /\ next # NoAppointment
    /\ Len(Displayed(next)) >= 2
    /\ ~isLoading

\* the position of an await of cancelAppointment among its awaits
PcRank(pc) ==
  CASE pc = "preread" -> 1
    [] pc = "update" -> 2
    [] pc = "notifySlot" -> 3
    [] pc = "notifyService" -> 4
    [] OTHER -> 5

\* C22: with a data store and notifiers that respond, every confirmed
\* cancel ends, as a success or as a failure; the step that ends it clears
\* isCanceling, and when it ends as a failure it leaves the selection and
\* the cancel modal as they are; a call is started only by the confirm
\* button and goes through its requests once, in order.
C22_ConfirmedCancelEndsOnce ==
  /\ \A n \in 1..MaxOperations :
       (\E op \in cancels : op.n = n)
         ~> (lastCancel.n = n /\ \A op \in cancels : op.n # n)
  /\ [][ /\ \A op \in cancels :
              CancelEnds(op)
                => /\ lastCancel'.report \in {"success", "failure"}
                   /\ ~isCanceling'
                   /\ lastCancel'.report = "failure"
                        => /\ selectedAppointment' = selectedAppointment
                           /\ showCancelModal' = showCancelModal
         /\ (\E op2 \in cancels' : \A op \in cancels : op.n # op2.n)
              => ConfirmCancel
         /\ \A op \in cancels, op2 \in cancels' :
              (op2.n = op.n /\ op2 # op) => PcRank(op2.pc) = PcRank(op.pc) + 1
       ]_vars

\* a cancel has ended as a failure: the modal and the selection are still
\* there and the confirm button is enabled again
C22_Witness ==
  /\ lastCancel.report = "failure"
  /\ cancels = {}
  /\ showCancelModal
  /\ selectedAppointment.id = lastCancel.id
  /\ ConfirmEnabled

\* C23: after a cancel has succeeded, its update having freed the row, and
\* the record has left the local list, the response of a load does not
\* put a record of that id back into the list while the row is still free
\* (a response that holds the booked record was computed before the
\* update).
C23_CancelledRecordStaysRemoved ==
  [][ \A l \in loads :
        ( /\ LoadResponds(l)
          /\ lastCancel.report = "success"
          /\ lastCancel.id \notin Ids(userAppointments)
          /\ \A i \in Rows : appointments[i].id = lastCancel.id
                               => appointments[i].is_available )
          => lastCancel.id \notin Ids(userAppointments') ]_vars

\* C24: the cancel modal and the late-cancel modal are never both visible,
\* and while the cancel modal is visible an appointment is selected and
\* the last result of isWithin48Hours, which was computed for it, is false.
C24_ModalsExclusiveAndConfirmable ==
  /\ ~(showCancelModal /\ showLateCancelModal)
  /\ showCancelModal
       => /\ selectedAppointment # NoAppointment
          /\ hist.eligibility = "Confirmable"

\* the cancel modal is visible for an appointment that was not within 48
\* hours when it was selected and is within 48 hours by now
C24_Witness ==
  /\ showCancelModal
  /\ selectedAppointment # NoAppointment
  /\ hist.eligibility = "Confirmable"
  /\ isWithin48Hours(selectedAppointment, now)
  /\ cancels = {}

\* C25: a load that fails leaves the local list as it is and shows no
\* alert, and whenever no load is in flight after the mount, isLoading and
\* refreshing are both false.
C25_FailedLoadIsSilentAndIndicatorsClear ==
  [][ /\ \A l \in loads :
           LoadFails(l)
             => /\ userAppointments' = userAppointments
                /\ lastCancel' = lastCancel
                /\ lastContact' = lastContact
                /\ UNCHANGED << showCancelModal, showLateCancelModal >>
      /\ (mounted' /\ loads' = {}) => (~isLoading' /\ ~refreshing') ]_vars

\* the load of the mount and a refresh overlapped and both failed: the
\* list is still empty and no indicator is set
C25_Witness ==
  /\ mounted
  /\ loads = {}
  /\ hist.started = 2
  /\ hist.listFrom = 0
  /\ userAppointments = <<>>
  /\ ~isLoading /\ ~refreshing

==========================================================================
